---- MODULE Spec2Model ----
(***************************************************************************)
(* Maintenance-request pipeline of the Kefiat backend (routes/requests.ts, *)
(* latest revision): the Request table, the clock, and one action per      *)
(* HTTP handler.  Every handler is a read (findUnique) followed by one     *)
(* prisma update whose `data` patch is computed from the row that was      *)
(* read; the patch is modelled as a function from column names to values.  *)
(***************************************************************************)
EXTENDS Integers, Sequences, FiniteSets, TLC

\* ------------------------------------------------------------------ bounds
MaxReq == 1       \* rows the create handler may add to the Request table
MaxTime == 1      \* the clock runs over 0..MaxTime
MaxHops == 3      \* redirects counted since the last page load, login or logout

\* --------------------------------------------------------------- constants
Unset == -1       \* a NULL timestamp column

statusPipeline ==
  <<"in_queue", "viewed", "maintenance_requested", "implementing_actions", "completed">>

allowedStatusValues == {statusPipeline[i] : i \in 1..Len(statusPipeline)}

allowedPriorities == {"low", "normal", "high", "emergency"}

allowedWindowOptions ==
  {"08:00-10:00", "09:00-11:00", "10:00-12:00", "11:00-13:00",
   "12:00-14:00", "13:00-15:00", "14:00-16:00", "15:00-17:00"}

\* Array.prototype.indexOf on statusPipeline: 0-based, -1 when absent
indexOf(s) ==
  IF s \in allowedStatusValues
    THEN (CHOOSE i \in 1..Len(statusPipeline) : statusPipeline[i] = s) - 1
    ELSE -1

\* the five timestamp columns, in pipeline order
stageColumns ==
  <<"inQueueAt", "viewedAt", "maintenanceRequestedAt", "implementingActionsAt", "completedAt">>

\* the authenticated principals (req.user): two tenants, a manager, an admin
Users ==
  { [id |-> 1, role |-> "tenant"], [id |-> 2, role |-> "tenant"],
    [id |-> 3, role |-> "manager"], [id |-> 4, role |-> "admin"] }

\* The handlers treat all tenants alike, so only tenant 1 (the seeded tenant)
\* files requests; tenant 2 stands for every other tenant and exercises the
\* handlers on requests it does not own.
Filers == {u \in Users : u.id # 2}

\* The status handler treats manager and admin alike, so one of them and the
\* owning tenant are the principals whose calls overlap in time.
Racers == {u \in Users : u.id \in {1, 3}}

\* request bodies and path parameters the handlers are exercised with
StatusInputs == allowedStatusValues \cup {"", "archived"}
PriorityInputs == {"high", "", "urgent"}
WindowInputs == {"", "08:00-10:00", "09:00-11:00", "23:00-01:00"}
UnitInputs == {"", "101"}

VARIABLES
  requests,   \* the Request table: row i has id i (SERIAL primary key)
  now,        \* the clock read by new Date() and CURRENT_TIMESTAMP
  pending,    \* per principal: the call suspended at `await prisma.request.update`
  browser     \* the frontend: auth context, stored token, location, rendered page

vars == <<requests, now, pending, browser>>

\* no call of the principal is awaiting its update
idle == <<>>

\* path parameters: every existing id and one that does not exist
Ids == 1..(Len(requests) + 1)

\* prisma.request.findUnique({ where: { id } }): <<row>> or <<>> (null)
findUnique(id) ==
  IF id \in 1..Len(requests) THEN <<requests[id]>> ELSE <<>>

\* prisma.request.update: the columns of `data` overwrite those of the row
applyData(row, data) ==
  [c \in DOMAIN row |-> IF c \in DOMAIN data THEN data[c] ELSE row[c]]

noData == [c \in {} |-> Unset]

\* `a ?? b` on a nullable timestamp
coalesce(a, b) == IF a # Unset THEN a ELSE b

ensureTenant(user) == user.role = "tenant"

\* variant: every authenticated principal passes the manager check
ensureManager_open(user) == user.role # ""

ensureManager(user) == user.role = "manager" \/ user.role = "admin"

\* what a handler does: the table it leaves, the number of prisma writes it
\* issued, and the HTTP status, message and rows of its response
Result(table, writes, code, message, body) ==
  [requests |-> table, writes |-> writes, code |-> code,
   message |-> message, body |-> body]

Rejected(code, message) == Result(requests, 0, code, message, <<>>)

\* --------------------------------------------------------------- frontend

\* User is null when nobody is signed in
NoUser == "none"

\* role: "tenant" | "manager" | "admin"
Roles == {"tenant", "manager", "admin"}

\* the locations the application is opened at: the four routes of App and
\* one path that only the wildcard route matches
Paths == {"/", "/login", "/manager", "/tenant", "/reports"}

Dashboards == {"ManagerDashboard", "TenantDashboard"}

\* the accounts that sign in: the two users of prisma/seed.ts, a second
\* manager and an admin
Accounts ==
  { [email |-> "manager@example.com", role |-> "manager"],
    [email |-> "tenant@example.com", role |-> "tenant"],
    [email |-> "owner@example.com", role |-> "manager"],
    [email |-> "admin@example.com", role |-> "admin"] }

\* the router has not yet rendered the element of the current location
Routing == "routing"

\* AuthProvider's initial state on a page load at `path`, with the user the
\* token in localStorage belongs to (NoUser: no token)
mount(path, stored) ==
  [user |-> NoUser, loading |-> TRUE, stored |-> stored, restoring |-> stored,
   path |-> path, view |-> Routing, hops |-> 0]

\* what an element does: render a component or redirect
Show(component) == [navigate |-> FALSE, to |-> "", view |-> component]
Navigate(to) == [navigate |-> TRUE, to |-> to, view |-> Routing]

ProtectedRoute(user, loading, allowedRoles, children) ==
  IF loading THEN Show("Loading")
  ELSE IF user = NoUser THEN Navigate("/login")
  ELSE IF user \notin allowedRoles THEN Navigate("/")
  ELSE Show(children)

\* <Routes>: the element of the route that matches the location
App(path, user, loading) ==
  IF path = "/login" THEN Show("LoginPage")
  ELSE IF path = "/manager" THEN
    ProtectedRoute(user, loading, {"manager"}, "ManagerDashboard")
  ELSE IF path = "/tenant" THEN
    ProtectedRoute(user, loading, {"tenant"}, "TenantDashboard")
  ELSE IF path = "/" THEN
    IF user # NoUser
      THEN Navigate(IF user = "manager" THEN "/manager" ELSE "/tenant")
      ELSE Navigate("/login")
  ELSE Navigate("/")

\* ---------------------------------------------------------------- handlers

\* a row written by prisma/seed.ts: no stage timestamp is supplied
seedRow(id, status, priority, role) ==
  [id |-> id, tenantId |-> 1, status |-> status, priority |-> priority,
   lastUpdatedByRole |-> role, createdAt |-> now,
   inQueueAt |-> Unset, viewedAt |-> Unset, maintenanceRequestedAt |-> Unset,
   implementingActionsAt |-> Unset, completedAt |-> Unset]

\* variant: the create leaves inQueueAt to the column default (none)
createRow_noStamp(user, prioritySafe) ==
  [id |-> Len(requests) + 1, tenantId |-> user.id, status |-> "in_queue",
   priority |-> prioritySafe, lastUpdatedByRole |-> "tenant",
   createdAt |-> now,
   inQueueAt |-> Unset, viewedAt |-> Unset, maintenanceRequestedAt |-> Unset,
   implementingActionsAt |-> Unset, completedAt |-> Unset]

\* POST /requests: the row passed to prisma.request.create
createRow(user, prioritySafe) ==
  [id |-> Len(requests) + 1, tenantId |-> user.id, status |-> "in_queue",
   priority |-> prioritySafe, lastUpdatedByRole |-> "tenant",
   createdAt |-> now,
   inQueueAt |-> now, viewedAt |-> Unset, maintenanceRequestedAt |-> Unset,
   implementingActionsAt |-> Unset, completedAt |-> Unset]

\* variant: the priority of the body is stored as it came
createRequest_rawPriority(user, unit, priority, w1, w2) ==
  IF ~ensureTenant(user) THEN
    Rejected(403, "Only tenants can perform this action")
  ELSE IF unit = "" THEN
    Rejected(400, "unit, category, description, and phone are required")
  ELSE IF w1 = "" \/ w1 \notin allowedWindowOptions THEN
    Rejected(400, "preferredWindow1 is required")
  ELSE IF w2 # "" /\ w2 \notin allowedWindowOptions THEN
    Rejected(400, "preferredWindow2 must be a valid 2-hour window")
  ELSE IF w1 = w2 THEN
    Rejected(400, "Preferred windows must be different")
  ELSE
    LET row == createRow(user, priority)
    IN Result(Append(requests, row), 1, 201, "", <<row>>)

\* Tenant: create new request
createRequest(user, unit, priority, w1, w2) ==
  IF ~ensureTenant(user) THEN
    Rejected(403, "Only tenants can perform this action")
  ELSE IF unit = "" THEN
    Rejected(400, "unit, category, description, and phone are required")
  ELSE IF w1 = "" \/ w1 \notin allowedWindowOptions THEN
    Rejected(400, "preferredWindow1 is required")
  ELSE IF w2 # "" /\ w2 \notin allowedWindowOptions THEN
    Rejected(400, "preferredWindow2 must be a valid 2-hour window")
  ELSE IF w1 = w2 THEN
    Rejected(400, "Preferred windows must be different")
  ELSE
    LET prioritySafe ==
          IF priority # "" /\ priority \in allowedPriorities THEN priority ELSE "normal"
        row == createRow(user, prioritySafe)
    IN Result(Append(requests, row), 1, 201, "", <<row>>)

\* variant: inQueueAt is stamped with the closing instant unconditionally
closeData_restamp(existing, t) ==
  [c \in {"status", "lastUpdatedByRole", "completedAt", "inQueueAt"} |->
     IF c = "status" THEN "completed"
     ELSE IF c = "lastUpdatedByRole" THEN "tenant"
     ELSE IF c = "completedAt" THEN coalesce(existing.completedAt, t)
     ELSE t]

\* variant: the close moves one stage forward and keeps the last updater
closeData_step(existing, t) ==
  LET cur == indexOf(existing.status) IN
  [c \in {"status", "completedAt"} |->
     IF c = "status" THEN statusPipeline[cur + 2]
     ELSE coalesce(existing.completedAt, t)]

\* PATCH /:id/close: the `data` patch built from the row that was read
closeData(existing, t) ==
  LET cur == indexOf(existing.status) IN
  [c \in {"status", "lastUpdatedByRole", "completedAt"} |->
     IF c = "status" THEN "completed"
     ELSE IF c = "lastUpdatedByRole" THEN "tenant"
     ELSE coalesce(existing.completedAt, t)]
  @@ (IF existing.inQueueAt = Unset
        THEN "inQueueAt" :> coalesce(existing.createdAt, t) ELSE noData)
  @@ (IF existing.viewedAt = Unset /\ existing.status # "in_queue"
        THEN "viewedAt" :> t ELSE noData)
  @@ (IF existing.maintenanceRequestedAt = Unset /\ cur >= indexOf("maintenance_requested")
        THEN "maintenanceRequestedAt" :> coalesce(existing.maintenanceRequestedAt, t)
        ELSE noData)
  @@ (IF existing.implementingActionsAt = Unset /\ cur >= indexOf("implementing_actions")
        THEN "implementingActionsAt" :> coalesce(existing.implementingActionsAt, t)
        ELSE noData)

\* variant: the ownership test is left out of the lookup check
closeEarly_anyTenant(user, id) ==
  IF ~ensureTenant(user) THEN
    Rejected(403, "Only tenants can perform this action")
  ELSE LET found == findUnique(id) IN
    IF found = <<>> THEN
      Rejected(404, "Request not found")
    ELSE IF found[1].status = "completed" THEN
      Result(requests, 0, 200, "", found)
    ELSE
      LET updated == applyData(requests[id], closeData(found[1], now)) IN
      Result([requests EXCEPT ![id] = updated], 1, 200, "", <<updated>>)

\* variant: no early return for a request that is already completed
closeEarly_rewrite(user, id) ==
  IF ~ensureTenant(user) THEN
    Rejected(403, "Only tenants can perform this action")
  ELSE LET found == findUnique(id) IN
    IF found = <<>> \/ found[1].tenantId # user.id THEN
      Rejected(404, "Request not found")
    ELSE
      LET updated == applyData(requests[id], closeData(found[1], now)) IN
      Result([requests EXCEPT ![id] = updated], 1, 200, "", <<updated>>)

\* Tenant: close a request (mark as completed)
closeEarly(user, id) ==
  IF ~ensureTenant(user) THEN
    Rejected(403, "Only tenants can perform this action")
  ELSE LET found == findUnique(id) IN
    IF found = <<>> \/ found[1].tenantId # user.id THEN
      Rejected(404, "Request not found")
    ELSE IF found[1].status = "completed" THEN
      Result(requests, 0, 200, "", found)
    ELSE
      LET updated == applyData(requests[id], closeData(found[1], now)) IN
      Result([requests EXCEPT ![id] = updated], 1, 200, "", <<updated>>)

\* variant: the switch stamps the column of the following stage
stageColumn_next(status) ==
  stageColumns[IF indexOf(status) + 2 <= Len(stageColumns)
                 THEN indexOf(status) + 2 ELSE Len(stageColumns)]

\* the column stamped by the switch on the requested status
stageColumn(status) == stageColumns[indexOf(status) + 1]

\* variant: the patch writes back the priority of the row that was read
statusData_fullRow(existing, status, t) ==
  (IF existing[stageColumn(status)] = Unset
     THEN stageColumn(status) :> t ELSE noData)
  @@ (IF existing.inQueueAt = Unset
        THEN "inQueueAt" :> coalesce(existing.createdAt, t) ELSE noData)
  @@ [c \in {"status", "lastUpdatedByRole", "priority"} |->
        IF c = "status" THEN status
        ELSE IF c = "lastUpdatedByRole" THEN "manager"
        ELSE existing.priority]

\* variant: the stage of an emergency request is not stamped
statusData_byPriority(existing, status, t) ==
  (IF existing[stageColumn(status)] = Unset /\ existing.priority # "emergency"
     THEN stageColumn(status) :> t ELSE noData)
  @@ (IF existing.inQueueAt = Unset
        THEN "inQueueAt" :> coalesce(existing.createdAt, t) ELSE noData)
  @@ [c \in {"status", "lastUpdatedByRole"} |->
        IF c = "status" THEN status ELSE "manager"]

\* variant: the switch stamps the requested stage whether or not it is set
statusData_restamp(existing, status, t) ==
  (stageColumn(status) :> t)
  @@ (IF existing.inQueueAt = Unset
        THEN "inQueueAt" :> coalesce(existing.createdAt, t) ELSE noData)
  @@ [c \in {"status", "lastUpdatedByRole"} |->
        IF c = "status" THEN status ELSE "manager"]

\* variant: the patch carries the status alone
statusData_statusOnly(existing, status, t) ==
  [c \in {"status"} |-> status]

\* PATCH /:id/status: the `data` patch built from the row that was read
statusData(existing, status, t) ==
  (IF existing[stageColumn(status)] = Unset
     THEN stageColumn(status) :> t ELSE noData)
  @@ (IF existing.inQueueAt = Unset
        THEN "inQueueAt" :> coalesce(existing.createdAt, t) ELSE noData)
  @@ [c \in {"status", "lastUpdatedByRole"} |->
        IF c = "status" THEN status ELSE "manager"]

\* variant: any forward move passes the order check
inOrder_skip(existing, status) ==
  status = existing.status \/ indexOf(status) > indexOf(existing.status)

\* variant: one step in either direction passes the order check
inOrder_back(existing, status) ==
  \/ status = existing.status
  \/ indexOf(status) = indexOf(existing.status) + 1
  \/ indexOf(status) = indexOf(existing.status) - 1

\* the pipeline-order check: same status, or exactly one step forward
inOrder(existing, status) ==
  status = existing.status \/ indexOf(status) = indexOf(existing.status) + 1

\* variant: the row is looked up before the requested status is validated
advanceStatus_readFirst(user, id, status) ==
  IF ~ensureManager(user) THEN
    Rejected(403, "Only managers can perform this action")
  ELSE LET found == findUnique(id) IN
    IF found = <<>> THEN
      Rejected(404, "Request not found")
    ELSE IF status = "" \/ status \notin allowedStatusValues THEN
      Rejected(400, "Invalid status")
    ELSE IF ~inOrder(found[1], status) THEN
      Rejected(400, "Status must be updated in order")
    ELSE
      LET updated == applyData(requests[id], statusData(found[1], status, now)) IN
      Result([requests EXCEPT ![id] = updated], 1, 200, "", <<updated>>)

\* variant: a missing row is answered with 200 and a null body
advanceStatus_nullBody(user, id, status) ==
  IF ~ensureManager(user) THEN
    Rejected(403, "Only managers can perform this action")
  ELSE IF status = "" \/ status \notin allowedStatusValues THEN
    Rejected(400, "Invalid status")
  ELSE LET found == findUnique(id) IN
    IF found = <<>> THEN
      Result(requests, 0, 200, "", <<>>)
    ELSE IF ~inOrder(found[1], status) THEN
      Rejected(400, "Status must be updated in order")
    ELSE
      LET updated == applyData(requests[id], statusData(found[1], status, now)) IN
      Result([requests EXCEPT ![id] = updated], 1, 200, "", <<updated>>)

\* Manager: update status (must follow pipeline order)
advanceStatus(user, id, status) ==
  IF ~ensureManager(user) THEN
    Rejected(403, "Only managers can perform this action")
  ELSE IF status = "" \/ status \notin allowedStatusValues THEN
    Rejected(400, "Invalid status")
  ELSE LET found == findUnique(id) IN
    IF found = <<>> THEN
      Rejected(404, "Request not found")
    ELSE IF ~inOrder(found[1], status) THEN
      Rejected(400, "Status must be updated in order")
    ELSE
      LET updated == applyData(requests[id], statusData(found[1], status, now)) IN
      Result([requests EXCEPT ![id] = updated], 1, 200, "", <<updated>>)

\* variant: re-prioritising puts the request back at the head of the pipeline
priorityData_requeue(priority) ==
  [c \in {"priority", "lastUpdatedByRole", "status"} |->
     IF c = "priority" THEN priority
     ELSE IF c = "lastUpdatedByRole" THEN "manager"
     ELSE "in_queue"]

\* variant: the priority patch does not record who made it
priorityData_silent(priority) ==
  [c \in {"priority"} |-> priority]

\* PATCH /:id/priority: the `data` patch
priorityData(priority) ==
  [c \in {"priority", "lastUpdatedByRole"} |->
     IF c = "priority" THEN priority ELSE "manager"]

\* Manager: update priority (no read: prisma update throws on a missing row)
updatePriority(user, id, priority) ==
  IF ~ensureManager(user) THEN
    Rejected(403, "Only managers can perform this action")
  ELSE IF priority = "" \/ priority \notin allowedPriorities THEN
    Rejected(400, "Invalid priority")
  ELSE IF id \notin 1..Len(requests) THEN
    Rejected(500, "Failed to update priority")
  ELSE
    LET updated == applyData(requests[id], priorityData(priority)) IN
    Result([requests EXCEPT ![id] = updated], 1, 200, "", <<updated>>)

\* ---------------------------------------------------------------- actions

\* a handler ran to its response: the table becomes what it left
Handle(result) ==
  /\ requests' = result.requests
  /\ UNCHANGED <<now, pending, browser>>

\* prisma/seed.ts main(): the two sample requests, into an empty table
Seed ==
  /\ Len(requests) = 0
  /\ requests' = << seedRow(1, "in_queue", "high", "tenant"),
                    seedRow(2, "maintenance_requested", "normal", "manager") >>
  /\ UNCHANGED <<now, pending, browser>>

Tick ==
  /\ now < MaxTime
  /\ now' = now + 1
  /\ UNCHANGED <<requests, pending, browser>>

Create(user, unit, priority, w1, w2) ==
  /\ Len(requests) < MaxReq
  /\ Handle(createRequest(user, unit, priority, w1, w2))

Close(user, id) == Handle(closeEarly(user, id))

UpdateStatus(user, id, status) == Handle(advanceStatus(user, id, status))

UpdatePriority(user, id, priority) == Handle(updatePriority(user, id, priority))

Init ==
  /\ requests = <<>>
  /\ now = 0
  /\ pending = [u \in Users |-> idle]
  /\ browser = mount("/", NoUser)

Next ==
  \/ Seed
  \/ Tick
  \/ \E user \in Filers, unit \in UnitInputs, priority \in PriorityInputs,
        w1 \in WindowInputs, w2 \in WindowInputs :
       Create(user, unit, priority, w1, w2)
  \/ \E user \in Users, id \in Ids : Close(user, id)
  \/ \E user \in Users, id \in Ids, status \in StatusInputs :
       UpdateStatus(user, id, status)
  \/ \E user \in Users, id \in Ids, priority \in PriorityInputs :
       UpdatePriority(user, id, priority)

Spec == Init /\ [][Next]_vars

\* the running API on a freshly migrated (unseeded) database
NextApi ==
  \/ Tick
  \/ \E user \in Filers, unit \in UnitInputs, priority \in PriorityInputs,
        w1 \in WindowInputs, w2 \in WindowInputs :
       Create(user, unit, priority, w1, w2)
  \/ \E user \in Users, id \in Ids : Close(user, id)
  \/ \E user \in Users, id \in Ids, status \in StatusInputs :
       UpdateStatus(user, id, status)
  \/ \E user \in Users, id \in Ids, priority \in PriorityInputs :
       UpdatePriority(user, id, priority)

SpecApi == Init /\ [][NextApi]_vars

\* The status and close handlers split at their second await: the row is read,
\* checked and the `data` patch is built; the update reaches the database
\* later and overwrites the columns of `data` in the row as it is then.
\* A call that an early return answers never gets that far.
BeginStatus(user, id, status) ==
  /\ pending[user] = idle
  /\ advanceStatus(user, id, status).writes = 1
  /\ pending' = [pending EXCEPT ![user] =
                   <<[op |-> "status", id |-> id, read |-> requests[id],
                      data |-> statusData(requests[id], status, now)]>>]
  /\ UNCHANGED <<requests, now, browser>>

BeginClose(user, id) ==
  /\ pending[user] = idle
  /\ closeEarly(user, id).writes = 1
  /\ pending' = [pending EXCEPT ![user] =
                   <<[op |-> "close", id |-> id, read |-> requests[id],
                      data |-> closeData(requests[id], now)]>>]
  /\ UNCHANGED <<requests, now, browser>>

\* prisma.request.update({ where: { id }, data }) of a suspended call
Commit(user) ==
  /\ pending[user] # idle
  /\ LET call == pending[user][1] IN
       requests' = [requests EXCEPT ![call.id] = applyData(@, call.data)]
  /\ pending' = [pending EXCEPT ![user] = idle]
  /\ UNCHANGED <<now, browser>>

\* the create that files the request the overlapping calls are about
CreateFirst(user, unit, priority, w1, w2) ==
  /\ Len(requests) = 0
  /\ Handle(createRequest(user, unit, priority, w1, w2))

\* the API on an unseeded database with the handlers of several principals
\* interleaved at their awaits, on the first request filed
NextConc ==
  \/ Tick
  \/ \E user \in Filers, unit \in UnitInputs, priority \in PriorityInputs,
        w1 \in WindowInputs, w2 \in WindowInputs :
       CreateFirst(user, unit, priority, w1, w2)
  \/ \E user \in Racers, id \in Ids, status \in StatusInputs :
       BeginStatus(user, id, status)
  \/ \E user \in Racers, id \in Ids : BeginClose(user, id)
  \/ \E user \in Racers : Commit(user)
  \/ \E user \in Users, id \in Ids, priority \in PriorityInputs :
       UpdatePriority(user, id, priority)

SpecConc == Init /\ [][NextConc]_vars

\* ------------------------------------------------------------- properties

RowIds == 1..Len(requests)

Stages == 0..(Len(statusPipeline) - 1)

\* the timestamp of pipeline stage i (0-based) of a row
stageAt(row, i) == row[stageColumns[i + 1]]

Managers == {u \in Users : ensureManager(u)}

Tenants == {u \in Users : ensureTenant(u)}

OrderMessage == "Status must be updated in order"

\* a step taken by the status handler, by the close handler (a call that is
\* rejected leaves every variable as it is, so only the calls that pass the
\* role, input and existence checks can take a step)
StatusStep ==
  \E u \in Managers, id \in RowIds, st \in allowedStatusValues : UpdateStatus(u, id, st)

CloseStep == \E u \in Tenants, id \in RowIds : Close(u, id)

\* C1: advanceStatus by a manager with a valid status that is neither the
\* current status nor the next stage is rejected as out of order (400) and
\* writes nothing: the table is left exactly as it was.
C1_OutOfOrderRejected ==
  \A u \in Managers, id \in RowIds, st \in allowedStatusValues :
    (st # requests[id].status /\ indexOf(st) # indexOf(requests[id].status) + 1)
      => \A r \in {advanceStatus(u, id, st)} :
           /\ r.code = 400
           /\ r.message = OrderMessage
           /\ r.writes = 0
           /\ r.requests = requests

\* Scenario B: a request at viewed has just had an out-of-order update rejected
C1_Witness ==
  \E id \in RowIds :
    /\ requests[id].status = "viewed"
    /\ requests[id].viewedAt > requests[id].inQueueAt
    /\ requests[id].completedAt = Unset
    /\ advanceStatus([id |-> 3, role |-> "manager"], id, "completed").code = 400

\* C2: in every reachable state, whatever advanceStatus call comes next (a
\* manager or admin, an existing request, any of the five statuses) leaves the
\* pipeline index of every request either unchanged or higher by exactly 1; so
\* along any sequence of calls the index never decreases and moves one stage
\* at a time.
C2_MonotonicOrder ==
  \A u \in Managers, id \in RowIds, st \in allowedStatusValues :
    \A after \in {advanceStatus(u, id, st).requests} :
      /\ Len(after) = Len(requests)
      /\ \A j \in RowIds :
           \/ after[j].status = requests[j].status
           \/ indexOf(after[j].status) - indexOf(requests[j].status) \in {0, 1}

\* two successive one-step advances have been applied to a created request
C2_Witness ==
  \E id \in RowIds :
    /\ requests[id].status = "maintenance_requested"
    /\ requests[id].lastUpdatedByRole = "manager"
    /\ requests[id].inQueueAt = requests[id].createdAt
    /\ requests[id].viewedAt # Unset
    /\ requests[id].maintenanceRequestedAt # Unset

\* the highest k such that the timestamps of stages 0..k are all set (-1 if none)
prefixEnd(row) ==
  IF stageAt(row, 0) = Unset THEN -1
  ELSE CHOOSE k \in Stages :
         /\ \A i \in 0..k : stageAt(row, i) # Unset
         /\ (k + 1 \in Stages => stageAt(row, k + 1) = Unset)

\* C3: in every reachable state the status of a request is the stage at which
\* the contiguous prefix of set stage timestamps ends.
C3_StatusMatchesPrefix ==
  \A id \in RowIds : indexOf(requests[id].status) = prefixEnd(requests[id])

\* C4: a closeEarly that closes a request sets the timestamp of every stage
\* after the request's current stage to the closing instant.
C4_SkippedStagesCollapse ==
  [][CloseStep =>
       \A id \in RowIds :
         requests'[id] # requests[id] =>
           \A i \in Stages :
             i > indexOf(requests[id].status) => stageAt(requests'[id], i) = now]_vars

\* the table `after` keeps every stage timestamp that is set in the current one
keepsTimestamps(after) ==
  \A j \in RowIds :
    \/ after[j] = requests[j]
    \/ \A i \in Stages :
         stageAt(requests[j], i) # Unset => stageAt(after[j], i) = stageAt(requests[j], i)

\* C5: in every reachable state, whatever advanceStatus or closeEarly call
\* comes next, every stage timestamp that is set keeps its value; so once set,
\* a timestamp is never cleared or changed by any sequence of calls.
C5_TimestampsImmutable ==
  /\ \A u \in Managers, id \in RowIds, st \in allowedStatusValues :
       \A after \in {advanceStatus(u, id, st).requests} : keepsTimestamps(after)
  /\ \A u \in Tenants, id \in RowIds :
       \A after \in {closeEarly(u, id).requests} : keepsTimestamps(after)

\* a tenant closed a request whose earlier stages a manager had stamped before
C5_Witness ==
  \E id \in RowIds :
    /\ requests[id].status = "completed"
    /\ requests[id].lastUpdatedByRole = "tenant"
    /\ requests[id].inQueueAt = requests[id].createdAt
    /\ requests[id].viewedAt # Unset
    /\ requests[id].viewedAt < requests[id].completedAt

\* C6: for stages i < j whose timestamps are both set, timestamp[i] <= timestamp[j]
\* (seeded records included).
C6_TimestampsOrdered ==
  \A id \in RowIds, i \in Stages, j \in Stages :
    (i < j /\ stageAt(requests[id], i) # Unset /\ stageAt(requests[id], j) # Unset)
      => stageAt(requests[id], i) <= stageAt(requests[id], j)

\* C7: closeEarly by the owning tenant on a request that is not completed
\* succeeds from any stage and leaves status = completed, lastUpdatedByRole =
\* tenant, and completedAt = now when it was unset (unchanged otherwise).
C7_CloseJumpsToCompleted ==
  \A u \in Tenants, id \in RowIds :
    (requests[id].tenantId = u.id /\ requests[id].status # "completed")
      => \A r \in {closeEarly(u, id)} :
           \A old \in {requests[id]}, new \in {r.requests[id]} :
             /\ r.code = 200
             /\ r.writes = 1
             /\ r.body = <<new>>
             /\ new.status = "completed"
             /\ new.lastUpdatedByRole = "tenant"
             /\ new.completedAt =
                  (IF old.completedAt = Unset THEN now ELSE old.completedAt)

\* a request was closed straight from in_queue, after the clock had advanced
C7_Witness ==
  \E id \in RowIds :
    /\ requests[id].status = "completed"
    /\ requests[id].lastUpdatedByRole = "tenant"
    /\ requests[id].inQueueAt # Unset
    /\ requests[id].viewedAt = Unset
    /\ requests[id].completedAt = now
    /\ requests[id].completedAt > requests[id].inQueueAt

\* C8: closeEarly by the owner on a completed request answers with the request
\* as it is and issues no write, and a closeEarly that closes leaves the request
\* completed, so a second closeEarly changes nothing.
C8_CloseIdempotent ==
  \A u \in Tenants, id \in RowIds :
    requests[id].tenantId = u.id
      => \A r \in {closeEarly(u, id)} :
           /\ r.requests[id].status = "completed"
           /\ requests[id].status = "completed"
                => /\ r.code = 200
                   /\ r.writes = 0
                   /\ r.body = <<requests[id]>>
                   /\ r.requests = requests

\* a request that a manager completed earlier, for which its owner's
\* closeEarly answers 200 with the manager's record left as it is
C8_Witness ==
  \E id \in RowIds, u \in Tenants :
    /\ requests[id].tenantId = u.id
    /\ requests[id].status = "completed"
    /\ requests[id].lastUpdatedByRole = "manager"
    /\ requests[id].completedAt < now
    /\ closeEarly(u, id).code = 200

\* C9: advanceStatus with the current status succeeds and changes neither the
\* status nor any stage timestamp (seeded records included).
C9_SameStatusNoOp ==
  [][StatusStep =>
       \A id \in RowIds :
         requests'[id].status = requests[id].status
           => \A i \in Stages : stageAt(requests'[id], i) = stageAt(requests[id], i)]_vars

\* C10: a legal advanceStatus (requested index = current index + 1) sets the
\* status to the requested stage, stamps the target stage with now when it was
\* unset, changes no stage timestamp that was set, and leaves the timestamps of
\* the stages after the target unset.
C10_LegalAdvance ==
  \A u \in Managers, id \in RowIds, st \in allowedStatusValues :
    indexOf(st) = indexOf(requests[id].status) + 1
      => \A r \in {advanceStatus(u, id, st)} :
           \A old \in {requests[id]}, new \in {r.requests[id]}, k \in {indexOf(st)} :
             /\ r.code = 200
             /\ new.status = st
             /\ stageAt(new, k) =
                  (IF stageAt(old, k) = Unset THEN now ELSE stageAt(old, k))
             /\ \A i \in Stages :
                  stageAt(old, i) # Unset => stageAt(new, i) = stageAt(old, i)
             /\ \A i \in Stages : i > k => stageAt(new, i) = Unset

\* Scenario A: created at T0, advanced to viewed at a later T1
C10_Witness ==
  \E id \in RowIds :
    /\ requests[id].status = "viewed"
    /\ requests[id].lastUpdatedByRole = "manager"
    /\ requests[id].inQueueAt = requests[id].createdAt
    /\ requests[id].viewedAt = now
    /\ requests[id].viewedAt > requests[id].inQueueAt
    /\ requests[id].maintenanceRequestedAt = Unset

\* C11: after a legal advanceStatus (requested index = current index + 1) the
\* timestamp of every stage before the target is set, whatever record the
\* call starts from (seeded records included).
C11_EarlierStagesSet ==
  \A u \in Managers, id \in RowIds, st \in allowedStatusValues :
    indexOf(st) = indexOf(requests[id].status) + 1
      => \A after \in {advanceStatus(u, id, st).requests} :
           \A i \in Stages : i < indexOf(st) => stageAt(after[id], i) # Unset

\* what the transitions read and write of a row: its status and stage timestamps
transitionState(row) == <<row.status, [i \in Stages |-> stageAt(row, i)]>>

\* a suspended call whose update lands on a row that no transition has changed
\* since the call read it
freshCommit(user) ==
  /\ Commit(user)
  /\ transitionState(pending[user][1].read)
       = transitionState(requests[pending[user][1].id])

\* C12: when transition calls for the same request overlap between their read
\* and their write, only a call whose read is still current writes: a call
\* that read a row which another call has changed since does not write.
C12_StaleReadDoesNotWrite ==
  [][\A user \in Racers : Commit(user) => freshCommit(user)]_vars

\* a call that was turned away: the given code, no row in the answer, no
\* write, and the table exactly as it was
turnedAway(r, code) ==
  /\ r.code = code
  /\ r.body = <<>>
  /\ r.writes = 0
  /\ r.requests = requests

CreateInputs ==
  ({"101"} \X PriorityInputs \X (WindowInputs \cap allowedWindowOptions) \X WindowInputs)
    \cup {<<"", "", "", "">>}

\* C14: advanceStatus and the priority update by a principal that is neither
\* manager nor admin, and closeEarly and create by a principal that is not a
\* tenant, are answered with 403 whatever the id and the body (existing or
\* missing id, valid or invalid input), and leave the table as it was.
C14_RoleChecksFirst ==
  \A u \in Users :
    /\ u.role \notin {"manager", "admin"}
         => \A id \in Ids :
              /\ \A st \in StatusInputs :
                   \A r \in {advanceStatus(u, id, st)} : turnedAway(r, 403)
              /\ \A p \in PriorityInputs :
                   \A r \in {updatePriority(u, id, p)} : turnedAway(r, 403)
    /\ u.role # "tenant"
         => /\ \A id \in Ids :
                 \A r \in {closeEarly(u, id)} : turnedAway(r, 403)
            /\ \A b \in CreateInputs :
                 \A r \in {createRequest(u, b[1], b[2], b[3], b[4])} :
                   turnedAway(r, 403)

\* a request that its owner may not advance and that a manager may not close
C14_Witness ==
  \E id \in RowIds, t \in Tenants, m \in Managers :
    /\ requests[id].tenantId = t.id
    /\ requests[id].status = "viewed"
    /\ advanceStatus(t, id, "maintenance_requested").code = 403
    /\ updatePriority(t, id, "high").code = 403
    /\ closeEarly(m, id).code = 403

\* C15: advanceStatus by a manager with a missing status or one outside the
\* five is answered with 400 "Invalid status" and leaves the table as it was,
\* for every id (existing or not) and every current status.
C15_InvalidStatusRejected ==
  \A u \in Managers, id \in Ids, st \in StatusInputs \ allowedStatusValues :
    \A r \in {advanceStatus(u, id, st)} :
      turnedAway(r, 400) /\ r.message = "Invalid status"

\* an invalid status is refused for an existing request and for a missing id
C15_Witness ==
  \E id \in RowIds, u \in Managers :
    /\ requests[id].status = "implementing_actions"
    /\ advanceStatus(u, id, "archived").message = "Invalid status"
    /\ advanceStatus(u, Len(requests) + 1, "").message = "Invalid status"

\* C16: advanceStatus by a manager with a valid status, and closeEarly by a
\* tenant, for an id that does not exist are answered with 404 "Request not
\* found"; no row is created and none is modified.
C16_MissingIdNotFound ==
  \A id \in Ids \ RowIds :
    /\ \A u \in Managers, st \in allowedStatusValues :
         \A r \in {advanceStatus(u, id, st)} :
           turnedAway(r, 404) /\ r.message = "Request not found"
    /\ \A u \in Tenants :
         \A r \in {closeEarly(u, id)} :
           turnedAway(r, 404) /\ r.message = "Request not found"

\* a non-empty table and an id past its last row
C16_Witness ==
  \E id \in RowIds, u \in Managers, t \in Tenants :
    /\ requests[id].status = "in_queue"
    /\ requests[id].lastUpdatedByRole = "manager"
    /\ advanceStatus(u, Len(requests) + 1, "viewed").code = 404
    /\ closeEarly(t, Len(requests) + 1).code = 404

\* C17: a create that succeeds appends one row and changes no other; the new
\* row has status in_queue, inQueueAt = the creation instant, the other four
\* stage timestamps unset, lastUpdatedByRole = tenant and tenantId = the
\* creating tenant (a principal that is not a tenant creates nothing, C14).
C17_CreatedInQueue ==
  \A u \in Tenants, b \in CreateInputs :
    \A r \in {createRequest(u, b[1], b[2], b[3], b[4])} :
      r.code = 201
        => /\ Len(r.requests) = Len(requests) + 1
           /\ SubSeq(r.requests, 1, Len(requests)) = requests
           /\ \A row \in {r.requests[Len(requests) + 1]} :
                /\ r.body = <<row>>
                /\ row.status = "in_queue"
                /\ row.inQueueAt = now
                /\ row.createdAt = now
                /\ \A i \in Stages : i > 0 => stageAt(row, i) = Unset
                /\ row.lastUpdatedByRole = "tenant"
                /\ row.tenantId = u.id

\* a request as its tenant created it, after the clock has advanced
C17_Witness ==
  \E id \in RowIds :
    /\ requests[id].status = "in_queue"
    /\ requests[id].lastUpdatedByRole = "tenant"
    /\ requests[id].tenantId = 1
    /\ requests[id].inQueueAt = now
    /\ requests[id].inQueueAt > 0
    /\ \A i \in Stages : i > 0 => stageAt(requests[id], i) = Unset

\* C18: on a request whose status is completed, whatever advanceStatus call
\* (by a manager or admin, with any of the five statuses) or closeEarly call
\* (by a tenant) comes next leaves its status and its five stage timestamps as
\* they are, and advanceStatus to any status but completed is rejected as out
\* of order; so no sequence of such calls, one at a time, changes them.
C18_CompletedIsFinal ==
  \A id \in RowIds :
    requests[id].status = "completed"
      => /\ \A u \in Managers, st \in allowedStatusValues :
              \A r \in {advanceStatus(u, id, st)} :
                /\ transitionState(r.requests[id]) = transitionState(requests[id])
                /\ st # "completed"
                     => (r.code = 400 /\ r.message = OrderMessage /\ r.writes = 0)
         /\ \A u \in Tenants :
              \A r \in {closeEarly(u, id)} :
                /\ transitionState(r.requests[id]) = transitionState(requests[id])
                /\ r.writes = 0

\* a request its tenant closed from in_queue, on which a manager has since
\* called advanceStatus(completed)
C18_Witness ==
  \E id \in RowIds, u \in Managers :
    /\ requests[id].status = "completed"
    /\ requests[id].priority = "normal"
    /\ requests[id].lastUpdatedByRole = "manager"
    /\ requests[id].viewedAt = Unset
    /\ requests[id].completedAt < now
    /\ advanceStatus(u, id, "completed").code = 200
    /\ advanceStatus(u, id, "implementing_actions").code = 400

\* a call that either wrote nothing or issued one write on row id, after
\* which the row has the given status, that stage's timestamp set and the
\* given last updater, every other row being as it was
allOrNothing(r, id, status, role) ==
  /\ r.code # 200 => r.writes = 0
  /\ r.writes = 0 => r.requests = requests
  /\ r.writes # 0
       => /\ r.writes = 1
          /\ \A new \in {r.requests[id]} :
               /\ new.status = status
               /\ stageAt(new, indexOf(status)) # Unset
               /\ new.lastUpdatedByRole = role
          /\ \A j \in RowIds : j # id => r.requests[j] = requests[j]

\* C19: every advanceStatus call (by a manager or admin) and closeEarly call
\* (by a tenant) either leaves the table as it was with no write issued, or
\* issues one write after which the request has the new status, the timestamp
\* of that stage set and lastUpdatedByRole = the acting role, all at once; a
\* call answered with an error writes nothing.
C19_AllOrNothing ==
  /\ \A u \in Managers, id \in Ids, st \in StatusInputs :
       \A r \in {advanceStatus(u, id, st)} : allOrNothing(r, id, st, "manager")
  /\ \A u \in Tenants, id \in Ids :
       \A r \in {closeEarly(u, id)} : allOrNothing(r, id, "completed", "tenant")

\* a request a manager has taken from its tenant's hands to implementing_actions,
\* on which a backward call is refused
C19_Witness ==
  \E id \in RowIds, u \in Managers :
    /\ requests[id].status = "implementing_actions"
    /\ requests[id].lastUpdatedByRole = "manager"
    /\ requests[id].implementingActionsAt = now
    /\ advanceStatus(u, id, "viewed").writes = 0
    /\ advanceStatus(u, id, "completed").writes = 1

\* C20: a priority update by a manager or admin with any of the four valid
\* values succeeds on an existing request in any status, sets its priority to
\* that value and lastUpdatedByRole to manager, and changes nothing else in
\* the table: status and the five stage timestamps stay as they were.
C20_PriorityFrame ==
  \A u \in Managers, id \in RowIds, p \in allowedPriorities :
    \A r \in {updatePriority(u, id, p)} :
      /\ r.code = 200
      /\ r.writes = 1
      /\ r.body = <<r.requests[id]>>
      /\ r.requests =
           [requests EXCEPT ![id] =
              [@ EXCEPT !.priority = p, !.lastUpdatedByRole = "manager"]]

\* a request its tenant closed and whose priority a manager has raised since:
\* the close left lastUpdatedByRole = tenant and no status call has stamped
\* a stage, so the manager's mark comes from a priority update or a
\* same-status call, and a further priority update still succeeds
C20_Witness ==
  \E id \in RowIds, u \in Managers :
    /\ requests[id].status = "completed"
    /\ requests[id].viewedAt = Unset
    /\ requests[id].priority = "high"
    /\ requests[id].lastUpdatedByRole = "manager"
    /\ requests[id].completedAt = now
    /\ updatePriority(u, id, "emergency").code = 200

\* C21: in every reachable state every request has one of the five statuses
\* and one of the four priorities; a priority update with a missing or unknown
\* priority is answered with 400 and writes nothing, and a create with a
\* missing or unknown priority stores normal (an invalid status: C15).
C21_EnumeratedValues ==
  /\ \A id \in RowIds :
       /\ requests[id].status \in allowedStatusValues
       /\ requests[id].priority \in allowedPriorities
  /\ \A u \in Managers, id \in Ids, p \in PriorityInputs \ allowedPriorities :
       \A r \in {updatePriority(u, id, p)} :
         turnedAway(r, 400) /\ r.message = "Invalid priority"
  /\ \A u \in Tenants, p \in PriorityInputs \ allowedPriorities :
       \A r \in {createRequest(u, "101", p, "08:00-10:00", "")} :
         r.code = 201 /\ r.body[1].priority = "normal"

\* a request still as its tenant filed it, with the priority the create put
\* in place of a missing or unknown one
C21_Witness ==
  \E id \in RowIds :
    /\ requests[id].status = "in_queue"
    /\ requests[id].priority = "normal"
    /\ requests[id].lastUpdatedByRole = "tenant"
    /\ requests[id].inQueueAt = requests[id].createdAt
    /\ requests[id].viewedAt = Unset

\* C22: lastUpdatedByRole records the last successful mutation: it is manager
\* after every advanceStatus that succeeds (a legal step or the same status)
\* and after every priority update that succeeds, by a manager or an admin;
\* tenant after every closeEarly that changes the request; and it is left as
\* it was by a rejected call and by closeEarly on a completed request (a
\* created request starts with tenant: C17).
C22_LastUpdatedByRole ==
  \A id \in RowIds :
    /\ \A u \in Managers, st \in allowedStatusValues :
         \A r \in {advanceStatus(u, id, st)} :
           r.requests[id].lastUpdatedByRole =
             (IF r.code = 200 THEN "manager" ELSE requests[id].lastUpdatedByRole)
    /\ \A u \in Managers, p \in PriorityInputs :
         \A r \in {updatePriority(u, id, p)} :
           r.requests[id].lastUpdatedByRole =
             (IF r.code = 200 THEN "manager" ELSE requests[id].lastUpdatedByRole)
    /\ \A u \in Tenants :
         \A r \in {closeEarly(u, id)} :
           r.requests[id].lastUpdatedByRole =
             (IF r.writes = 1 THEN "tenant" ELSE requests[id].lastUpdatedByRole)

\* a request a manager worked on and its tenant then closed: the tenant's
\* close replaced the manager's mark
C22_Witness ==
  \E id \in RowIds, u \in Managers :
    /\ requests[id].status = "completed"
    /\ requests[id].maintenanceRequestedAt # Unset
    /\ requests[id].implementingActionsAt = Unset
    /\ requests[id].lastUpdatedByRole = "tenant"
    /\ advanceStatus(u, id, "completed").requests[id].lastUpdatedByRole = "manager"

\* C23: when advanceStatus or closeEarly writes an inQueueAt that was unset,
\* the value written is the request's createdAt, whatever the requested
\* status (in_queue included).
C23_InQueueFromCreatedAt ==
  \A id \in RowIds :
    requests[id].inQueueAt = Unset
      => /\ \A u \in Managers, st \in allowedStatusValues :
              \A r \in {advanceStatus(u, id, st)} :
                r.writes = 1 => r.requests[id].inQueueAt = requests[id].createdAt
         /\ \A u \in Tenants :
              \A r \in {closeEarly(u, id)} :
                r.writes = 1 => r.requests[id].inQueueAt = requests[id].createdAt

\* the row the status handler leaves when it read `existing`: the row with
\* its patch applied when the order check passes, the row itself otherwise
statusOutcome(existing, status, t) ==
  IF inOrder(existing, status)
    THEN applyData(existing, statusData(existing, status, t))
    ELSE existing

\* the row the close handler leaves when it read `existing` (as its owner)
closeOutcome(existing, t) ==
  IF existing.status = "completed"
    THEN existing
    ELSE applyData(existing, closeData(existing, t))

\* rows that agree with `row` on status, createdAt and the five timestamps
\* and differ from it in priority and in lastUpdatedByRole
variants(row) ==
  {[row EXCEPT !.priority = p, !.lastUpdatedByRole = l] :
     p \in allowedPriorities \ {row.priority},
     l \in {"tenant", "manager"} \ {row.lastUpdatedByRole}}

\* C24: the status and stage timestamps that advanceStatus and closeEarly
\* produce depend only on the request's status, its five timestamps, its
\* createdAt, the requested status and the instant: on a request that differs
\* from a stored one in priority and lastUpdatedByRole only, the same call at
\* the same instant gives the status and timestamps the handler gives on the
\* stored one.
C24_TransitionDeterministic ==
  \A id \in RowIds :
    \A vs \in {variants(requests[id])} :
      /\ \A st \in allowedStatusValues :
           \A r \in {advanceStatus([id |-> 3, role |-> "manager"], id, st)} :
             \A v \in vs :
               transitionState(statusOutcome(v, st, now))
                 = transitionState(r.requests[id])
      /\ \A u \in Tenants :
           requests[id].tenantId = u.id
             => \A r \in {closeEarly(u, id)} :
                  \A v \in vs :
                    transitionState(closeOutcome(v, now))
                      = transitionState(r.requests[id])

\* a high-priority request at viewed that a tenant's call touched last: the
\* manager's next step stamps it exactly as it stamps its variants
C24_Witness ==
  \E id \in RowIds :
    /\ requests[id].status = "viewed"
    /\ requests[id].priority = "high"
    /\ requests[id].viewedAt < now
    /\ \E v \in variants(requests[id]) :
         /\ v.priority = "emergency"
         /\ statusOutcome(v, "maintenance_requested", now).maintenanceRequestedAt = now
         /\ closeOutcome(v, now).completedAt = now

\* C25: on a request at implementing_actions whose first four stage
\* timestamps are set and whose completedAt is unset, closeEarly by the owner
\* and advanceStatus(completed) by a manager at the same instant both succeed
\* and leave the same status and the same five timestamps; the rows they
\* leave differ in lastUpdatedByRole only (tenant, manager).
C25_CloseEqualsLastStep ==
  \A id \in RowIds :
    (/\ requests[id].status = "implementing_actions"
     /\ \A i \in 0..3 : stageAt(requests[id], i) # Unset
     /\ requests[id].completedAt = Unset)
      => \A u \in Managers, t \in Tenants :
           requests[id].tenantId = t.id
             => \A a \in {advanceStatus(u, id, "completed")}, c \in {closeEarly(t, id)} :
                  /\ a.code = 200 /\ c.code = 200
                  /\ transitionState(a.requests[id]) = transitionState(c.requests[id])
                  /\ a.requests[id].completedAt = now
                  /\ a.requests[id].lastUpdatedByRole = "manager"
                  /\ c.requests[id].lastUpdatedByRole = "tenant"
                  /\ [a.requests[id] EXCEPT !.lastUpdatedByRole = "tenant"] = c.requests[id]

\* a request a manager has walked to implementing_actions, one instant later
C25_Witness ==
  \E id \in RowIds :
    /\ requests[id].status = "implementing_actions"
    /\ \A i \in 0..3 : stageAt(requests[id], i) # Unset
    /\ requests[id].completedAt = Unset
    /\ requests[id].implementingActionsAt < now

\* C26: with the reads and writes of a manager's advanceStatus and the
\* owner's closeEarly interleaved, a request whose stored status is completed
\* keeps that status in every later state.
C26_CompletedStaysCompleted ==
  [][\A id \in RowIds :
       requests[id].status = "completed" => requests'[id].status = "completed"]_vars

\* C27: a priority update and a suspended advanceStatus or closeEarly on the
\* same request do not undo each other: whichever of the two writes lands
\* first, afterwards the priority is the one the update asked for and the
\* status and stage timestamps are the ones the transition's write gives.
C27_PriorityNotLost ==
  \A user \in Racers :
    pending[user] # idle
      => \A call \in {pending[user][1]} :
           \A transition \in {applyData(requests[call.id], call.data)} :
             \A u \in Managers, p \in allowedPriorities :
               /\ \A r \in {updatePriority(u, call.id, p)} :
                    \A last \in {applyData(r.requests[call.id], call.data)} :
                      /\ r.code = 200
                      /\ last.priority = p
                      /\ transitionState(last) = transitionState(transition)
               /\ \A last \in {applyData(transition, priorityData(p))} :
                    /\ last.priority = p
                    /\ transitionState(last) = transitionState(transition)

\* a priority update has landed between the read and the write of a
\* transition that is still suspended
C27_Witness ==
  \E user \in Racers :
    /\ pending[user] # idle
    /\ requests[pending[user][1].id].priority # pending[user][1].read.priority
    /\ transitionState(requests[pending[user][1].id])
         = transitionState(pending[user][1].read)

\* C28: the pipeline index of a request's status is a bounded progress
\* measure. A created request starts at index 0; a manager's request for the
\* next stage succeeds and raises the index by exactly one; every
\* advanceStatus call leaves the index where it was or one higher, every
\* closeEarly call leaves it where it was or at the last stage, a priority
\* update leaves it where it was; at completed no call changes the status.
\* So four next-stage calls reach completed and no request changes status
\* more than four times.
C28_FourStepsToCompleted ==
  /\ \A u \in Tenants :
       \A r \in {createRequest(u, "101", "", "08:00-10:00", "")} :
         r.code = 201 /\ indexOf(r.body[1].status) = 0
  /\ \A id \in RowIds :
       \A k \in {indexOf(requests[id].status)} :
         /\ k \in Stages
         /\ \A u \in Managers, st \in allowedStatusValues :
              \A r \in {advanceStatus(u, id, st)} :
                \A k2 \in {indexOf(r.requests[id].status)} :
                  /\ k2 \in {k, k + 1}
                  /\ indexOf(st) = k + 1 => r.code = 200 /\ k2 = k + 1
                  /\ k = Len(statusPipeline) - 1 => k2 = k
         /\ \A u \in Users :
              \A r \in {closeEarly(u, id)} :
                \A k2 \in {indexOf(r.requests[id].status)} :
                  /\ k2 \in {k, Len(statusPipeline) - 1}
                  /\ u.id = requests[id].tenantId /\ ensureTenant(u)
                       => k2 = Len(statusPipeline) - 1
         /\ \A u \in Managers, p \in allowedPriorities :
              indexOf(updatePriority(u, id, p).requests[id].status) = k

\* a request three advances from its creation, whose fourth next-stage call
\* reaches completed
C28_Witness ==
  \E id \in RowIds :
    /\ requests[id].status = "implementing_actions"
    /\ \A i \in 0..3 : stageAt(requests[id], i) # Unset
    /\ requests[id].completedAt = Unset
    /\ \E u \in Managers :
         advanceStatus(u, id, "completed").requests[id].status = "completed"

\* the orders findMany may return a set of rows in under
\* orderBy: { createdAt: "desc" }: rows of equal createdAt come in any order
newestFirst(ids) ==
  {f \in [1..Cardinality(ids) -> ids] :
     /\ \A i, j \in 1..Cardinality(ids) : i # j => f[i] # f[j]
     /\ \A i, j \in 1..Cardinality(ids) : i < j =>
          requests[f[i]].createdAt >= requests[f[j]].createdAt}

\* variant: the listing query has no where clause
findManyMine_all(user) ==
  {[i \in 1..Len(requests) |-> requests[f[i]]] : f \in newestFirst(1..Len(requests))}

\* prisma.request.findMany({ where: { tenantId: user.id }, orderBy: ... })
findManyMine(user) ==
  LET mine == {id \in 1..Len(requests) : requests[id].tenantId = user.id}
  IN {[i \in 1..Cardinality(mine) |-> requests[f[i]]] : f \in newestFirst(mine)}

\* Tenant: list only their requests (the responses the handler may give)
listMine(user) ==
  IF ~ensureTenant(user) THEN
    {Rejected(403, "Only tenants can perform this action")}
  ELSE
    {Result(requests, 0, 200, "", body) : body \in findManyMine(user)}

\* C29: the create stores the caller's id as tenantId; advanceStatus,
\* closeEarly and priority updates leave every row's tenantId as it was; the
\* tenant listing answers a tenant with exactly the rows whose tenantId is
\* the caller's id, each once, and answers nobody else with rows; the close
\* handler returns a row only to the tenant who owns it.
C29_TenantIdFixedAndListed ==
  /\ \A u \in Tenants :
       \A r \in {createRequest(u, "101", "", "08:00-10:00", "")} :
         r.code = 201 /\ r.body[1].tenantId = u.id
  /\ \A u \in Users :
       \A r \in listMine(u) :
         /\ r.requests = requests
         /\ ensureTenant(u) <=> r.code = 200
         /\ ~ensureTenant(u) => r.code = 403 /\ r.body = <<>>
         /\ \A i \in 1..Len(r.body) : r.body[i].tenantId = u.id
         /\ ensureTenant(u) =>
              /\ \A id \in RowIds :
                   requests[id].tenantId = u.id
                     => \E i \in 1..Len(r.body) : r.body[i] = requests[id]
              /\ \A i, j \in 1..Len(r.body) :
                   i # j => r.body[i].id # r.body[j].id
  /\ \A id \in RowIds :
       \A owner \in {requests[id].tenantId} :
         /\ \A u \in Managers, st \in allowedStatusValues :
              advanceStatus(u, id, st).requests[id].tenantId = owner
         /\ \A u \in Managers, p \in allowedPriorities :
              updatePriority(u, id, p).requests[id].tenantId = owner
         /\ \A u \in Users :
              \A r \in {closeEarly(u, id)} :
                /\ r.requests[id].tenantId = owner
                /\ \A i \in 1..Len(r.body) : r.body[i].tenantId = u.id

\* a tenant holds a request that a manager has moved on, its tenantId is
\* still the creator's, the owner's listing returns it and another tenant's
\* listing and close return nothing
C29_Witness ==
  \E id \in RowIds, me \in Tenants, other \in Tenants :
    /\ requests[id].tenantId = me.id
    /\ other.id # me.id
    /\ requests[id].status = "viewed"
    /\ requests[id].lastUpdatedByRole = "manager"
    /\ \E r \in listMine(me) : Len(r.body) > 0 /\ r.body[1] = requests[id]
    /\ \A r \in listMine(other) : r.code = 200 /\ r.body = <<>>
    /\ closeEarly(other, id).code = 404
    /\ closeEarly(other, id).body = <<>>

\* ------------------------------------------------------ frontend navigation

\* the router renders the element of the current location: a redirect
\* replaces the location, anything else is the page shown
Render ==
  /\ browser.view = Routing
  /\ LET element == App(browser.path, browser.user, browser.loading) IN
       browser' =
         IF element.navigate
           THEN [browser EXCEPT !.path = element.to,
                                !.hops = IF @ < MaxHops THEN @ + 1 ELSE @]
           ELSE [browser EXCEPT !.view = element.view]
  /\ UNCHANGED <<requests, now, pending>>

\* AuthProvider's effect: no stored token, or GET /auth/me answered (ok) or
\* failed; the state change renders the routes again
Restore(ok) ==
  /\ browser.loading
  /\ browser' =
       IF browser.restoring = NoUser THEN
         [browser EXCEPT !.loading = FALSE, !.view = Routing]
       ELSE IF ok THEN
         [browser EXCEPT !.user = browser.restoring, !.loading = FALSE,
                         !.view = Routing]
       ELSE
         [browser EXCEPT !.user = NoUser, !.stored = NoUser, !.loading = FALSE,
                         !.view = Routing]
  /\ UNCHANGED <<requests, now, pending>>

\* the application is loaded at a location
Open(path) ==
  /\ browser' = mount(path, browser.stored)
  /\ UNCHANGED <<requests, now, pending>>

\* LoginPage handleSubmit with the credentials of an account
Login(account) ==
  /\ browser.view = "LoginPage"
  /\ browser' =
       [browser EXCEPT !.user = account.role, !.stored = account.role,
                       !.path = IF account.email = "manager@example.com"
                                  THEN "/manager" ELSE "/tenant",
                       !.view = Routing, !.hops = 0]
  /\ UNCHANGED <<requests, now, pending>>

\* the dashboards' logout button
Logout ==
  /\ browser.view \in Dashboards
  /\ browser' = [browser EXCEPT !.user = NoUser, !.stored = NoUser,
                                !.view = Routing, !.hops = 0]
  /\ UNCHANGED <<requests, now, pending>>

InitNav ==
  /\ requests = <<>>
  /\ now = 0
  /\ pending = [u \in Users |-> idle]
  /\ browser \in {mount(path, stored) : path \in Paths, stored \in Roles \cup {NoUser}}

NextNav ==
  \/ Render
  \/ \E ok \in BOOLEAN : Restore(ok)
  \/ \E path \in Paths : Open(path)
  \/ \E account \in Accounts : Login(account)
  \/ Logout

\* the router always renders a pending location and the session request is
\* always answered; what the user does is up to the user
SpecNav ==
  /\ InitNav
  /\ [][NextNav]_vars
  /\ WF_vars(Render)
  /\ WF_vars(\E ok \in BOOLEAN : Restore(ok))

\* somebody is signed in and the session restore has finished
Authenticated == ~browser.loading /\ browser.user \in Roles

\* C30: whenever a signed-in tenant, manager or admin (auth loading
\* finished) is at a location the router has yet to render, the redirects
\* end and a dashboard is rendered (or the session ends first).
C30_RedirectsReachDashboard ==
  (Authenticated /\ browser.view = Routing)
    ~> (browser.view \in Dashboards \/ ~Authenticated)
====
